---- MODULE Spec2Model ----
(***************************************************************************)
(* State-machine model of the audited mutation pipeline of                 *)
(* HederaAuditedDatabase (insert / update / delete / query / audit trail / *)
(* verifyIntegrity), of its ledger channel, and of SyncManager's replay    *)
(* callback.                                                               *)
(*                                                                         *)
(* A mutation is an async handler.  Its PostgreSQL transaction is invisible*)
(* to other connections until COMMIT and the row it writes stays locked    *)
(* until then, so the statements from the first write to COMMIT/ROLLBACK   *)
(* are one atomic step; the SELECT that update and delete issue first is a *)
(* separate, earlier step (another caller may commit in between).          *)
(***************************************************************************)
EXTENDS Integers, Sequences, FiniteSets, TLC

\* ---------------------------------------------------------------- bounds
MaxCalls == 3          \* mutation calls issued in one behaviour
MaxInits == 2          \* initialize calls issued in one behaviour
MaxForeign == 1        \* messages other parties post on the channel
MaxDeliveries == 4     \* messages the transport hands to the sync callback
MaxInflight == 2       \* sync callbacks suspended at their await
MaxTxnCalls == 5       \* TransactionManager calls issued in one behaviour
MaxOperations == 2     \* operations queued in one transaction
MaxTransactions == 2   \* transactions begun in one behaviour

\* ---------------------------------------------------------------- inputs
NULL == "NULL"
Clients == {"c1", "c2"}
TxIds == {"T1", "T2"}
TableNames == {"users", "ghost"}

\* The ids callers give their transactions.
TransactionIds == {"X1"}

\* The schema handed to initialize: users(name NOT NULL, age).
Schema == [users |-> [name |-> [type |-> "string", nullable |-> FALSE],
                      age  |-> [type |-> "integer", nullable |-> TRUE]]]
SchemaTables == DOMAIN Schema
Columns(t) == DOMAIN Schema[t]

\* Object.keys(..).sort() order of the keys that occur in the model.
KeyOrder == <<"age", "bogus", "name">>

EmptyObj == [k \in {} |-> NULL]

\* Objects callers pass as `data` to insert.
InsertInputs ==
  { [name |-> "Alice", age |-> "30"],
    [name |-> "Alice"],
    [age |-> "30"],
    [name |-> "Alice", bogus |-> "x"],
    EmptyObj }

\* Objects callers pass as `updates` to update.
UpdateInputs ==
  { [age |-> "31"],
    [name |-> "Bob"],
    [bogus |-> "x"] }

\* Objects callers pass as `metadata`.
\* The insert inputs of the API runs: a full object and one without age.
ApiInsertInputs == {[name |-> "Alice", age |-> "30"], [name |-> "Alice"]}

Metadatas ==
  { EmptyObj,
    [userId |-> "admin", password |-> "pw"] }

\* ---------------------------------------------------------------- state
VARIABLES
  isInitialized,        \* this.isInitialized
  topicId,              \* this.topicId: 0 (null) or the index of a channel
  schemaCache,          \* this.schemaCache has "main"
  metrics,              \* this.metrics
  table,                \* rows of the users table, by _tx_id
  auditLog,             \* rows of _audit_log, in commit order
  channels,             \* the ledger's topics: each a sequence of messages
  calls,                \* per caller: the mutation it is in the middle of
  result,               \* what the call that ended last returned or threw
  ncalls,               \* mutation calls issued so far
  ninits,               \* initialize calls issued so far
  committed,            \* history: the mutations whose COMMIT succeeded
  lastSyncedSequence,   \* SyncManager.lastSyncedSequence
  inflight,             \* sync callbacks awaiting applyOperation, FIFO
  applied,              \* history: sequence numbers applyOperation ran for
  deliveries,           \* history: sequence numbers handed to the callback
  rejections,           \* sync callback promises that ended rejected
  replicaTable,         \* the users table of the store SyncManager applies to
  nforeign,             \* messages posted by other parties
  inits,                \* per caller: the initialize call it is in the middle of
  transactions,         \* TransactionManager.transactions: id -> txn object, or 0
  txnObjs,              \* the txn objects begin has made
  commits,              \* per caller: the commit call it is in the middle of
  txnResult,            \* what the TransactionManager call that ended last did
  invoked,              \* history: the queued operations commit has run
  ntxn                  \* TransactionManager calls issued so far

dbVars == <<isInitialized, topicId, schemaCache, metrics, table, auditLog,
            calls, result, ncalls, ninits, committed>>
syncVars == <<lastSyncedSequence, inflight, applied, deliveries, rejections,
              replicaTable>>
vars == <<isInitialized, topicId, schemaCache, metrics, table, auditLog,
          channels, calls, result, ncalls, ninits, committed,
          lastSyncedSequence, inflight, applied, deliveries, rejections,
          replicaTable, nforeign, inits, transactions, txnObjs, commits,
          txnResult, invoked, ntxn>>
initVars == <<inits>>
txnVars == <<transactions, txnObjs, commits, txnResult, invoked, ntxn>>

\* ---------------------------------------------------------------- helpers
Has(obj, k) == k \in DOMAIN obj

\* obj.userId || null
Get(obj, k) == IF Has(obj, k) THEN obj[k] ELSE NULL

\* { ...a, ...b }
Spread(a, b) ==
  [k \in DOMAIN a \cup DOMAIN b |-> IF k \in DOMAIN b THEN b[k] ELSE a[k]]

\* Object.keys(data).sort()
SortedKeys(data) == SelectSeq(KeyOrder, LAMBDA k : k \in DOMAIN data)

\* sha256(JSON.stringify(sorted data)): the digest is modelled by the
\* canonical string it is taken of, the sequence of key/value pairs.
calculateHash(data) ==
  LET keys == SortedKeys(data)
  IN  [i \in 1..Len(keys) |-> <<keys[i], data[keys[i]]>>]

\* const { password, token, secret, ...safe } = metadata
sanitizeMetadata(metadata) ==
  [k \in DOMAIN metadata \ {"password", "token", "secret"} |-> metadata[k]]

\* validateData: "ok", or the error it throws.
validateData(tableName, data) ==
  IF ~schemaCache \/ tableName \notin SchemaTables
    THEN "UnknownTable"
  ELSE IF \E f \in DOMAIN data : f \notin Columns(tableName)
    THEN "UnknownField"
  ELSE "ok"

\* const { _tx_id, ..., _is_deleted, ...cleanData } = row
cleanData(row) == row.cols

\* An absent hash field of a message (JSON has no such key).
NoHash == << <<"none", "none">> >>

ExistingTopic == 1

\* ------------------------------------------------------------ records
\* A row of the users table: system columns and the domain columns.
Row(dataHash, createdBy, cols) ==
  [_version |-> 1, _data_hash |-> dataHash, _created_by |-> createdBy,
   _is_deleted |-> FALSE, cols |-> cols]

\* AuditRow with the hash parameter dropped from the VALUES list.
AuditRowNoHash(txId, tableName, operation, dataHash, metadata, createdAt) ==
  [tx_id |-> txId, table_name |-> tableName, operation |-> operation,
   data_hash |-> NoHash, hedera_topic_id |-> topicId,
   metadata |-> metadata, user_id |-> Get(metadata, "userId"),
   created_at |-> createdAt]

\* A row of _audit_log (the columns the handlers fill in).  created_at
\* defaults to CURRENT_TIMESTAMP, the time the transaction began: the
\* number of the call, calls being numbered as they begin.
AuditRow(txId, tableName, operation, dataHash, metadata, createdAt) ==
  [tx_id |-> txId, table_name |-> tableName, operation |-> operation,
   data_hash |-> dataHash, hedera_topic_id |-> topicId,
   metadata |-> metadata, user_id |-> Get(metadata, "userId"),
   created_at |-> createdAt]

\* The auditMessage objects the handlers build.
Message(type, tableName, txId, dataHash, previousHash, newHash, updates, metadata) ==
  [type |-> type, table |-> tableName, txId |-> txId, dataHash |-> dataHash,
   previousHash |-> previousHash, newHash |-> newHash, updates |-> updates,
   metadata |-> sanitizeMetadata(metadata)]

SchemaInitMessage ==
  [type |-> "SCHEMA_INIT", table |-> NULL, txId |-> NULL, dataHash |-> NoHash,
   previousHash |-> NoHash, newHash |-> NoHash, updates |-> <<>>,
   metadata |-> EmptyObj]

\* What the call that ended last returned (status "ok") or the error it
\* threw, with the arguments it was given; hedera tells what its
\* submitToHedera did: "none" (not reached), "ack" or "fail".  Three
\* fields record the circumstances of the call: ledger is the answer the
\* ledger gave its publication, raced tells that another update of the same
\* row, patching other fields, published and ended between this update's
\* read and its end, and readVersion is the _version an update read.
Res(c, op, tableName, txId, status, hedera, version, dataHash, previousHash) ==
  [client |-> c, op |-> op, table |-> tableName, txId |-> txId, status |-> status,
   hedera |-> hedera, version |-> version, dataHash |-> dataHash,
   previousHash |-> previousHash, ledger |-> "none", raced |-> FALSE,
   readVersion |-> 0]

\* What a call of TransactionManager did: n is the number of the call.
TxnRes(n, op, transactionId, status) ==
  [n |-> n, op |-> op, id |-> transactionId, status |-> status]

NoTxnResult == TxnRes(0, "none", NULL, "none")

NoResult == Res("none", "none", NULL, NULL, "none", "none", 0, NoHash, NoHash)
Idle == [pc |-> "idle"]

\* ------------------------------------------------------------ Init
Init ==
  /\ isInitialized = FALSE
  /\ topicId = 0
  /\ schemaCache = FALSE
  /\ metrics = [insertCount |-> 0, updateCount |-> 0, deleteCount |-> 0,
                queryCount |-> 0, hederaSubmissions |-> 0, errors |-> 0]
  /\ table = [t \in {} |-> NULL]
  /\ auditLog = <<>>
  /\ channels = << <<>> >>
  /\ calls = [c \in Clients |-> Idle]
  /\ result = NoResult
  /\ ncalls = 0
  /\ ninits = 0
  /\ committed = <<>>
  /\ lastSyncedSequence = 0
  /\ inflight = <<>>
  /\ applied = <<>>
  /\ deliveries = <<>>
  /\ rejections = 0
  /\ replicaTable = [t \in {} |-> NULL]
  /\ nforeign = 0
  /\ inits = [c \in Clients |-> Idle]
  /\ transactions = [id \in TransactionIds |-> 0]
  /\ txnObjs = <<>>
  /\ commits = [c \in Clients |-> Idle]
  /\ txnResult = NoTxnResult
  /\ invoked = <<>>
  /\ ntxn = 0

\* ------------------------------------------------------------ ledger
\* submitToHedera, acknowledged: the message is appended to the topic.
submitToHedera(message) ==
  channels' = [channels EXCEPT ![topicId] = Append(@, message)]

Bump(counter) == [metrics EXCEPT ![counter] = @ + 1]

\* ------------------------------------------------------------ initialize
\* initialize(dbName, Schema, {existingTopicId}); failAt names the awaited
\* step that throws: creating/looking up the topic, the PostgreSQL DDL,
\* publishing SCHEMA_INIT, or none.
Initialize(existing, failAt) ==
  /\ ninits < MaxInits
  /\ ninits' = ninits + 1
  /\ UNCHANGED <<table, auditLog, calls, result, ncalls, committed, syncVars, nforeign>>
  /\ IF isInitialized
       THEN UNCHANGED <<isInitialized, topicId, schemaCache, metrics, channels>>
       ELSE
         LET newTopic == Len(channels) + 1
             topicOk == failAt # "topic"
             pgOk == topicOk /\ failAt # "pg"
             submits == pgOk /\ ~existing
             submitOk == submits /\ failAt # "submit"
             ok == pgOk /\ (submits => submitOk)
             tid == IF existing THEN ExistingTopic
                    ELSE IF topicOk THEN newTopic ELSE topicId
             created == IF ~existing /\ topicOk
                          THEN Append(channels, <<>>) ELSE channels
         IN  /\ topicId' = tid
             /\ channels' = IF submitOk
                              THEN [created EXCEPT ![tid] = Append(@, SchemaInitMessage)]
                              ELSE created
             /\ schemaCache' = (schemaCache \/ pgOk)
             /\ isInitialized' = ok
             /\ metrics' = IF ok THEN metrics ELSE Bump("errors")

\* ------------------------------------------------------------ initialize, await by await
\* initialize up to its first await: the isInitialized test, and for an
\* existing topic the assignment of this.topicId that
\* connectToExistingTopic makes before its query.
InitializeStart(c, existing) ==
  /\ inits[c].pc = "idle"
  /\ ninits < MaxInits
  /\ ninits' = ninits + 1
  /\ UNCHANGED <<isInitialized, schemaCache, metrics, table, auditLog, channels,
                 calls, result, ncalls, committed, syncVars, nforeign, txnVars>>
  /\ IF isInitialized
       THEN UNCHANGED <<topicId, inits>>
       ELSE /\ topicId' = IF existing THEN ExistingTopic ELSE topicId
            /\ inits' = [inits EXCEPT ![c] = [pc |-> "topic", existing |-> existing]]

\* createNewTopic's receipt or connectToExistingTopic's topic info arrives
\* (ok) or the await throws.
InitializeTopic(c, ok) ==
  /\ inits[c].pc = "topic"
  /\ UNCHANGED <<isInitialized, schemaCache, table, auditLog, calls, result, ncalls,
                 ninits, committed, syncVars, nforeign, txnVars>>
  /\ IF ok
       THEN /\ inits' = [inits EXCEPT ![c].pc = "pg"]
            /\ UNCHANGED metrics
            /\ IF inits[c].existing
                 THEN UNCHANGED <<topicId, channels>>
                 ELSE /\ channels' = Append(channels, <<>>)
                      /\ topicId' = Len(channels) + 1
       ELSE /\ inits' = [inits EXCEPT ![c] = Idle]
            /\ metrics' = Bump("errors")
            /\ UNCHANGED <<topicId, channels>>

\* createPostgresInfrastructure ends; schemaCache.set; for a new topic
\* submitToHedera(SCHEMA_INIT) is called, which reads this.topicId.
InitializeInfrastructure(c, ok) ==
  /\ inits[c].pc = "pg"
  /\ UNCHANGED <<topicId, table, auditLog, channels, calls, result, ncalls, ninits,
                 committed, syncVars, nforeign, txnVars>>
  /\ IF ok
       THEN /\ schemaCache' = TRUE
            /\ UNCHANGED metrics
            /\ IF inits[c].existing
                 THEN /\ isInitialized' = TRUE
                      /\ inits' = [inits EXCEPT ![c] = Idle]
                 ELSE /\ UNCHANGED isInitialized
                      /\ inits' = [inits EXCEPT ![c] =
                            [pc |-> "submit", existing |-> FALSE, topic |-> topicId]]
       ELSE /\ inits' = [inits EXCEPT ![c] = Idle]
            /\ metrics' = Bump("errors")
            /\ UNCHANGED <<isInitialized, schemaCache>>

\* The SCHEMA_INIT submission is acknowledged (ok) or fails; then
\* isInitialized = true.
InitializePublish(c, ok) ==
  /\ inits[c].pc = "submit"
  /\ inits' = [inits EXCEPT ![c] = Idle]
  /\ UNCHANGED <<topicId, schemaCache, table, auditLog, calls, result, ncalls, ninits,
                 committed, syncVars, nforeign, txnVars>>
  /\ IF ok
       THEN /\ channels' = [channels EXCEPT ![inits[c].topic] = Append(@, SchemaInitMessage)]
            /\ isInitialized' = TRUE
            /\ UNCHANGED metrics
       ELSE /\ metrics' = Bump("errors")
            /\ UNCHANGED <<isInitialized, channels>>

\* ------------------------------------------------------------ store
HasRow(txId) == txId \in DOMAIN table

PutRow(txId, row) ==
  [t \in DOMAIN table \cup {txId} |-> IF t = txId THEN row ELSE table[t]]

DropRow(txId) == [t \in DOMAIN table \ {txId} |-> table[t]]

\* crypto.randomBytes(16): an identifier no row, audit row or message has.
UsedTxIds ==
  DOMAIN table \cup { auditLog[i].tx_id : i \in DOMAIN auditLog }
    \cup UNION { { channels[k][i].txId : i \in DOMAIN channels[k] } : k \in DOMAIN channels }

generateTxId == TxIds \ UsedTxIds

\* The domain columns of the row INSERT INTO creates: the supplied values,
\* NULL for the columns left out (the modelled schema declares no default).
InsertedCols(tableName, data) ==
  [col \in Columns(tableName) |-> Get(data, col)]

\* The error of the INSERT INTO <table> statement, or "ok".
InsertRowError(tableName, data) ==
  IF DOMAIN data = {} THEN "SyntaxError"
  ELSE IF \E col \in Columns(tableName) :
            ~Schema[tableName][col].nullable /\ Get(data, col) = NULL
    THEN "NotNullViolation"
  ELSE "ok"

\* _audit_log.tx_id is UNIQUE: the error of INSERT INTO _audit_log, or "ok".
AuditInsertError(txId) ==
  IF \E i \in DOMAIN auditLog : auditLog[i].tx_id = txId
    THEN "UniqueViolation" ELSE "ok"

\* Outcome with the publication error caught and not rethrown.
OutcomePublishSwallowed(rowError, hederaOk, txId) ==
  IF rowError # "ok" THEN rowError ELSE AuditInsertError(txId)

\* The status a handler ends with once validation has passed: the first
\* step that throws among the row write, the publication and the audit
\* write, or "ok" when COMMIT is reached.
Outcome(rowError, hederaOk, txId) ==
  IF rowError # "ok" THEN rowError
  ELSE IF ~hederaOk THEN "LedgerSubmissionError"
  ELSE AuditInsertError(txId)

\* What submitToHedera did in a call that got past validation.
Hedera(rowError, hederaOk) ==
  IF rowError # "ok" THEN "none" ELSE IF hederaOk THEN "ack" ELSE "fail"

\* What the ledger answers to a call's publication: an acknowledgement, a
\* failure that a second attempt would get past, or one that no attempt
\* gets past.
LedgerOutcomes == {"ack", "transient", "permanent"}

\* submitToHedera's one execute and one getReceipt: acknowledged, or the
\* error is logged and thrown again.
SubmitAcked(ledger) == ledger = "ack"

\* The result of a call whose publication the ledger answered.
Answered(res, ledger) ==
  [res EXCEPT !.ledger = IF res.hedera = "none" THEN "none" ELSE ledger]

\* ------------------------------------------------------------ insert
\* listenerThrows: a listener registered for the event of the call throws.
Insert(c, tableName, data, metadata, txId, ledger, listenerThrows) ==
  /\ calls[c].pc = "idle"
  /\ ncalls < MaxCalls
  /\ ncalls' = ncalls + 1
  /\ UNCHANGED <<isInitialized, topicId, schemaCache, calls, ninits, syncVars, nforeign>>
  /\ LET hederaOk == SubmitAcked(ledger)
         valid == validateData(tableName, data)
         dataHash == calculateHash(data)
         rowError == InsertRowError(tableName, data)
         status == IF ~isInitialized THEN "NotInitialized"
                   ELSE IF valid # "ok" THEN valid
                   ELSE Outcome(rowError, hederaOk, txId)
         hedera == IF ~isInitialized \/ valid # "ok" THEN "none"
                   ELSE Hedera(rowError, hederaOk)
         row == Row(dataHash, Get(metadata, "userId"), InsertedCols(tableName, data))
         message == Message("INSERT", tableName, txId, dataHash, NoHash, NoHash, <<>>, metadata)
     IN  /\ IF hedera = "ack" THEN submitToHedera(message) ELSE UNCHANGED channels
         /\ IF status = "ok"
              THEN /\ table' = PutRow(txId, row)
                   /\ auditLog' = Append(auditLog, AuditRow(txId, tableName, "INSERT", dataHash, metadata, ncalls + 1))
                   /\ committed' = Append(committed, [op |-> "INSERT", txId |-> txId, dataHash |-> dataHash])
                   /\ metrics' = [metrics EXCEPT !.insertCount = @ + 1, !.hederaSubmissions = @ + 1,
                                                 !.errors = IF listenerThrows THEN @ + 1 ELSE @]
                   /\ result' = IF listenerThrows
                           THEN Answered(Res(c, "insert", tableName, NULL, "ListenerError", hedera, 0, NoHash, NoHash), ledger)
                           ELSE Answered(Res(c, "insert", tableName, txId, "ok", hedera, 1, dataHash, NoHash), ledger)
              ELSE /\ UNCHANGED <<table, auditLog, committed>>
                   /\ metrics' = IF status = "NotInitialized" THEN metrics ELSE Bump("errors")
                   /\ result' = Answered(Res(c, "insert", tableName, NULL, status, hedera, 0, NoHash, NoHash), ledger)

\* ------------------------------------------------------------ update
\* SELECT * FROM <table> WHERE _tx_id = $1 AND _is_deleted = FALSE finds a row.
SelectLive(txId) == HasRow(txId) /\ ~table[txId]._is_deleted

\* UpdateReadStatus with validateData moved before the SELECT.
UpdateReadStatusValidateFirst(tableName, txId, updates) ==
  IF tableName \notin SchemaTables THEN "UndefinedTable"
  ELSE IF validateData(tableName, updates) # "ok" THEN validateData(tableName, updates)
  ELSE IF ~SelectLive(txId) THEN "NotFound"
  ELSE "ok"

\* update's SELECT, its rows.length test and validateData, in that order:
\* the error thrown, or "ok".
UpdateReadStatus(tableName, txId, updates) ==
  IF tableName \notin SchemaTables THEN "UndefinedTable"
  ELSE IF ~SelectLive(txId) THEN "NotFound"
  ELSE validateData(tableName, updates)

\* update up to the point where it has read the row and validated the patch.
UpdateBegin(c, tableName, txId, updates, metadata) ==
  /\ calls[c].pc = "idle"
  /\ ncalls < MaxCalls
  /\ ncalls' = ncalls + 1
  /\ UNCHANGED <<isInitialized, topicId, schemaCache, table, auditLog, channels,
                 ninits, committed, syncVars, nforeign>>
  /\ LET status == IF ~isInitialized THEN "NotInitialized"
                   ELSE UpdateReadStatus(tableName, txId, updates)
     IN  IF status = "ok"
           THEN /\ calls' = [calls EXCEPT ![c] =
                      [pc |-> "update", tableName |-> tableName, txId |-> txId,
                       updates |-> updates, metadata |-> metadata,
                       currentData |-> table[txId], startedAt |-> ncalls + 1,
                       raced |-> FALSE]]
                /\ UNCHANGED <<metrics, result>>
           ELSE /\ UNCHANGED calls
                /\ metrics' = IF status = "NotInitialized" THEN metrics ELSE Bump("errors")
                /\ result' = Res(c, "update", tableName, txId, status, "none", 0, NoHash, NoHash)

\* Two updates in flight on the same row that patch different fields.
Overlaps(call, other) ==
  /\ other.pc = "update"
  /\ other.tableName = call.tableName
  /\ other.txId = call.txId
  /\ DOMAIN other.updates \cap DOMAIN call.updates = {}

\* update from its UPDATE statement to COMMIT or ROLLBACK.  The UPDATE
\* statement acts on the row as it is now (zero rows when it is gone, and
\* then result.rows[0]._version throws after COMMIT).
UpdateFinish(c, ledger, listenerThrows) ==
  /\ calls[c].pc = "update"
  /\ calls' = [d \in Clients |->
                 IF d = c THEN Idle
                 ELSE IF SubmitAcked(ledger) /\ Overlaps(calls[c], calls[d])
                   THEN [calls[d] EXCEPT !.raced = TRUE]
                 ELSE calls[d]]
  /\ UNCHANGED <<isInitialized, topicId, schemaCache, ncalls, ninits, syncVars, nforeign>>
  /\ LET hederaOk == SubmitAcked(ledger)
         call == calls[c]
         circumstances(res) ==
           [Answered(res, ledger) EXCEPT !.raced = call.raced /\ hederaOk,
                                         !.readVersion = call.currentData._version]
         txId == call.txId
         currentData == call.currentData
         newData == Spread(cleanData(currentData), call.updates)
         newDataHash == calculateHash(newData)
         previousHash == currentData._data_hash
         commit == Outcome("ok", hederaOk, txId)
         status == IF commit = "ok" /\ ~HasRow(txId) THEN "TypeError"
                   ELSE IF commit = "ok" /\ listenerThrows THEN "ListenerError"
                   ELSE commit
         hedera == Hedera("ok", hederaOk)
         newRow == [table[txId] EXCEPT !.cols = Spread(@, call.updates),
                                       !._data_hash = newDataHash,
                                       !._version = @ + 1]
         message == Message("UPDATE", call.tableName, txId, NoHash, previousHash,
                            newDataHash, SortedKeys(call.updates), call.metadata)
     IN  /\ IF hedera = "ack" THEN submitToHedera(message) ELSE UNCHANGED channels
         /\ IF commit = "ok"
              THEN /\ table' = IF HasRow(txId) THEN PutRow(txId, newRow) ELSE table
                   /\ auditLog' = Append(auditLog, AuditRow(txId, call.tableName, "UPDATE", newDataHash, call.metadata, call.startedAt))
                   /\ committed' = Append(committed, [op |-> "UPDATE", txId |-> txId, dataHash |-> newDataHash])
                   /\ metrics' = [metrics EXCEPT !.updateCount = @ + 1, !.hederaSubmissions = @ + 1,
                                                 !.errors = IF status = "ok" THEN @ ELSE @ + 1]
                   /\ result' = IF status = "ok"
                           THEN circumstances(Res(c, "update", call.tableName, txId, "ok", hedera, newRow._version, newDataHash, previousHash))
                           ELSE circumstances(Res(c, "update", call.tableName, txId, status, hedera, 0, NoHash, NoHash))
              ELSE /\ UNCHANGED <<table, auditLog, committed>>
                   /\ metrics' = Bump("errors")
                   /\ result' = circumstances(Res(c, "update", call.tableName, txId, status, hedera, 0, NoHash, NoHash))

\* ------------------------------------------------------------ delete
DeleteType(hardDelete) == IF hardDelete THEN "DELETE_HARD" ELSE "DELETE_SOFT"

\* How result names a delete call: by its hardDelete argument.
DeleteOp(hardDelete) == IF hardDelete THEN "delete_hard" ELSE "delete_soft"

\* delete up to the point where it has read the row.
DeleteBegin(c, tableName, txId, metadata, hardDelete) ==
  /\ calls[c].pc = "idle"
  /\ ncalls < MaxCalls
  /\ ncalls' = ncalls + 1
  /\ UNCHANGED <<isInitialized, topicId, schemaCache, table, auditLog, channels,
                 ninits, committed, syncVars, nforeign>>
  /\ LET status == IF ~isInitialized THEN "NotInitialized"
                   ELSE IF tableName \notin SchemaTables THEN "UndefinedTable"
                   ELSE IF ~HasRow(txId) THEN "NotFound"
                   ELSE "ok"
     IN  IF status = "ok"
           THEN /\ calls' = [calls EXCEPT ![c] =
                      [pc |-> "delete", tableName |-> tableName, txId |-> txId,
                       hardDelete |-> hardDelete, metadata |-> metadata,
                       currentData |-> table[txId], startedAt |-> ncalls + 1]]
                /\ UNCHANGED <<metrics, result>>
           ELSE /\ UNCHANGED calls
                /\ metrics' = IF status = "NotInitialized" THEN metrics ELSE Bump("errors")
                /\ result' = Res(c, DeleteOp(hardDelete), tableName, txId, status, "none", 0, NoHash, NoHash)

\* delete from its DELETE / UPDATE statement to COMMIT or ROLLBACK.
DeleteFinish(c, ledger, listenerThrows) ==
  /\ calls[c].pc = "delete"
  /\ calls' = [calls EXCEPT ![c] = Idle]
  /\ UNCHANGED <<isInitialized, topicId, schemaCache, ncalls, ninits, syncVars, nforeign>>
  /\ LET hederaOk == SubmitAcked(ledger)
         call == calls[c]
         txId == call.txId
         type == DeleteType(call.hardDelete)
         dataHash == call.currentData._data_hash
         status == Outcome("ok", hederaOk, txId)
         hedera == Hedera("ok", hederaOk)
         message == Message(type, call.tableName, txId, dataHash, NoHash, NoHash, <<>>, call.metadata)
     IN  /\ IF hedera = "ack" THEN submitToHedera(message) ELSE UNCHANGED channels
         /\ IF status = "ok"
              THEN /\ table' = IF ~HasRow(txId) THEN table
                               ELSE IF call.hardDelete THEN DropRow(txId)
                               ELSE PutRow(txId, [table[txId] EXCEPT !._is_deleted = TRUE])
                   /\ auditLog' = Append(auditLog, AuditRow(txId, call.tableName, type, dataHash, call.metadata, call.startedAt))
                   /\ committed' = Append(committed, [op |-> type, txId |-> txId, dataHash |-> dataHash])
                   /\ metrics' = [metrics EXCEPT !.deleteCount = @ + 1, !.hederaSubmissions = @ + 1,
                                                 !.errors = IF listenerThrows THEN @ + 1 ELSE @]
                   /\ result' = IF listenerThrows
                           THEN Answered(Res(c, DeleteOp(call.hardDelete), call.tableName, txId, "ListenerError", hedera, 0, NoHash, NoHash), ledger)
                           ELSE Answered(Res(c, DeleteOp(call.hardDelete), call.tableName, txId, "ok", hedera, 0, dataHash, NoHash), ledger)
              ELSE /\ UNCHANGED <<table, auditLog, committed>>
                   /\ metrics' = Bump("errors")
                   /\ result' = Answered(Res(c, DeleteOp(call.hardDelete), call.tableName, txId, status, hedera, 0, NoHash, NoHash), ledger)

\* ------------------------------------------------------------ reads
\* query(tableName, {includeDeleted}) with no where clause: the _tx_id of
\* the rows it returns.
query(includeDeleted) ==
  { t \in DOMAIN table : includeDeleted \/ ~table[t]._is_deleted }

\* The relations of the database, which starts empty: _audit_log and the
\* tables of the schema once createPostgresInfrastructure has run.
RelationExists(tableName) ==
  schemaCache /\ tableName \in SchemaTables \cup {"_audit_log"}

\* getAuditTrail's SELECT with the tx_id condition left out of its WHERE.
AuditTrailAnyTx(tableName, txId, descending) ==
  SortSeq(SelectSeq(auditLog, LAMBDA e : e.table_name = tableName),
          LAMBDA a, b : IF descending THEN a.created_at > b.created_at
                                      ELSE a.created_at < b.created_at)

\* getAuditTrail's SELECT ... WHERE table_name = $1 AND tx_id = $2
\* ORDER BY created_at ASC | DESC.
AuditTrail(tableName, txId, descending) ==
  SortSeq(SelectSeq(auditLog, LAMBDA e : e.table_name = tableName /\ e.tx_id = txId),
          LAMBDA a, b : IF descending THEN a.created_at > b.created_at
                                      ELSE a.created_at < b.created_at)

\* getAuditTrail(tableName, txId) with the default options: its trail.
getAuditTrail(tableName, txId) == AuditTrail(tableName, txId, FALSE)

\* trail[trail.length - 1] of an empty trail.
NoAudit == AuditRow(NULL, NULL, NULL, NoHash, EmptyObj, 0)

\* verifyIntegrity whose match is not the comparison of the two hashes.
verifyIntegrityAlwaysMatch(tableName, txId) ==
  IF ~RelationExists(tableName)
    THEN [valid |-> FALSE, verified |-> FALSE, error |-> "UndefinedTable",
          match |-> FALSE, storedHash |-> NoHash, calculatedHash |-> NoHash,
          auditRecords |-> 0, lastAudit |-> NoAudit]
  ELSE IF ~HasRow(txId)
    THEN [valid |-> FALSE, verified |-> FALSE, error |-> "Record not found",
          match |-> FALSE, storedHash |-> NoHash, calculatedHash |-> NoHash,
          auditRecords |-> 0, lastAudit |-> NoAudit]
    ELSE LET storedHash == table[txId]._data_hash
             calculatedHash == calculateHash(cleanData(table[txId]))
             trail == getAuditTrail(tableName, txId)
         IN  [valid |-> TRUE, verified |-> TRUE, error |-> NULL,
              match |-> TRUE, storedHash |-> storedHash,
              calculatedHash |-> calculatedHash,
              auditRecords |-> Len(trail),
              lastAudit |-> IF trail = <<>> THEN NoAudit ELSE trail[Len(trail)]]

\* verifyIntegrity(tableName, txId): the object it returns.  A failed query
\* is caught and returned as { valid: false, verified: false, error }; the
\* 'Record not found' object has no verified field (FALSE here).
verifyIntegrity(tableName, txId) ==
  IF ~RelationExists(tableName)
    THEN [valid |-> FALSE, verified |-> FALSE, error |-> "UndefinedTable",
          match |-> FALSE, storedHash |-> NoHash, calculatedHash |-> NoHash,
          auditRecords |-> 0, lastAudit |-> NoAudit]
  ELSE IF ~HasRow(txId)
    THEN [valid |-> FALSE, verified |-> FALSE, error |-> "Record not found",
          match |-> FALSE, storedHash |-> NoHash, calculatedHash |-> NoHash,
          auditRecords |-> 0, lastAudit |-> NoAudit]
    ELSE LET storedHash == table[txId]._data_hash
             calculatedHash == calculateHash(cleanData(table[txId]))
             trail == getAuditTrail(tableName, txId)
         IN  [valid |-> storedHash = calculatedHash, verified |-> TRUE, error |-> NULL,
              match |-> storedHash = calculatedHash, storedHash |-> storedHash,
              calculatedHash |-> calculatedHash,
              auditRecords |-> Len(trail),
              lastAudit |-> IF trail = <<>> THEN NoAudit ELSE trail[Len(trail)]]

\* A call of query(tableName, options): ensureInitialized, the SELECT, and
\* queryCount; what it returns is the operator query.
Query(c, tableName) ==
  /\ calls[c].pc = "idle"
  /\ ncalls < MaxCalls
  /\ ncalls' = ncalls + 1
  /\ UNCHANGED <<isInitialized, topicId, schemaCache, table, auditLog, channels,
                 calls, ninits, committed, syncVars, nforeign>>
  /\ LET status == IF ~isInitialized THEN "NotInitialized"
                   ELSE IF ~RelationExists(tableName) THEN "UndefinedTable"
                   ELSE "ok"
     IN  /\ metrics' = IF status = "ok" THEN Bump("queryCount")
                       ELSE IF status = "NotInitialized" THEN metrics
                       ELSE Bump("errors")
         /\ result' = Res(c, "query", tableName, NULL, status, "none", 0, NoHash, NoHash)

\* A call of getAuditTrail(tableName, txId, options): its SELECT runs
\* whatever isInitialized is, and its error is thrown again; what it
\* returns is the operator AuditTrail.
GetAuditTrail(c, tableName, txId) ==
  /\ calls[c].pc = "idle"
  /\ ncalls < MaxCalls
  /\ ncalls' = ncalls + 1
  /\ UNCHANGED <<isInitialized, topicId, schemaCache, metrics, table, auditLog,
                 channels, calls, ninits, committed, syncVars, nforeign>>
  /\ result' = Res(c, "getAuditTrail", tableName, txId,
                   IF RelationExists("_audit_log") THEN "ok" ELSE "UndefinedTable",
                   "none", 0, NoHash, NoHash)

\* A call of verifyIntegrity(tableName, txId): its SELECTs run whatever
\* isInitialized is, and it returns an object in every case: the operator
\* verifyIntegrity.
VerifyIntegrity(c, tableName, txId) ==
  /\ calls[c].pc = "idle"
  /\ ncalls < MaxCalls
  /\ ncalls' = ncalls + 1
  /\ UNCHANGED <<isInitialized, topicId, schemaCache, metrics, table, auditLog,
                 channels, calls, ninits, committed, syncVars, nforeign>>
  /\ result' = Res(c, "verifyIntegrity", tableName, txId, "ok", "none", 0, NoHash, NoHash)

\* ------------------------------------------------------------ next
DbNext ==
  \/ \E existing \in BOOLEAN, failAt \in {"none", "topic", "pg", "submit"} :
       Initialize(existing, failAt) /\ UNCHANGED <<initVars, txnVars>>
  \/ \E c \in Clients, tableName \in TableNames, data \in InsertInputs,
        metadata \in Metadatas, txId \in generateTxId, ledger \in {"ack", "permanent"} :
       Insert(c, tableName, data, metadata, txId, ledger, FALSE) /\ UNCHANGED <<initVars, txnVars>>
  \/ \E c \in Clients, tableName \in TableNames, txId \in TxIds,
        updates \in UpdateInputs, metadata \in Metadatas :
       UpdateBegin(c, tableName, txId, updates, metadata) /\ UNCHANGED <<initVars, txnVars>>
  \/ \E c \in Clients, ledger \in {"ack", "permanent"} : UpdateFinish(c, ledger, FALSE) /\ UNCHANGED <<initVars, txnVars>>
  \/ \E c \in Clients, tableName \in TableNames, txId \in TxIds,
        metadata \in Metadatas, hardDelete \in BOOLEAN :
       DeleteBegin(c, tableName, txId, metadata, hardDelete) /\ UNCHANGED <<initVars, txnVars>>
  \/ \E c \in Clients, ledger \in {"ack", "permanent"} : DeleteFinish(c, ledger, FALSE) /\ UNCHANGED <<initVars, txnVars>>

\* ------------------------------------------------------------ channel
\* The topic this instance publishes to and SyncManager subscribes to.
Channel == IF topicId = 0 THEN <<>> ELSE channels[topicId]

\* The payload "null": JSON.parse gives the operation null.
NullPayload ==
  [type |-> "null", table |-> NULL, txId |-> NULL, dataHash |-> NoHash,
   previousHash |-> NoHash, newHash |-> NoHash, updates |-> <<>>,
   metadata |-> EmptyObj]

\* createNewTopic sets a submit key only on request: without one the
\* topic takes messages from any account, here one whose payload is "null".
ForeignSubmit ==
  /\ isInitialized
  /\ nforeign < MaxForeign
  /\ nforeign' = nforeign + 1
  /\ submitToHedera(NullPayload)
  /\ UNCHANGED <<dbVars, syncVars>>

\* ------------------------------------------------------------ SyncManager
\* AlreadyProcessed with < for <=.
AlreadyProcessedStrict(sequenceNumber) == sequenceNumber < lastSyncedSequence

\* message.sequenceNumber <= this.lastSyncedSequence
AlreadyProcessed(sequenceNumber) == sequenceNumber <= lastSyncedSequence

\* applyOperation reads operation.type: it throws for the operation null.
applyOperationThrows(operation) == operation = NullPayload

\* applyOperation: the store after it has run on `store`.
applyOperation(operation, store) ==
  CASE operation.type = "INSERT" -> store
    [] operation.type = "UPDATE" -> store
    [] operation.type = "DELETE" -> store
    [] OTHER -> store

\* db.subscribeToAuditStream: the transport may hand the callback any
\* message of the topic, again and in any order.
Deliverable(sequenceNumber) ==
  isInitialized /\ sequenceNumber \in 1..Len(Channel)

\* The transport invokes the callback of syncFromHedera with message
\* sequenceNumber of the topic; the callback runs to its await (or to its
\* return, or to the throw of applyOperation).
SyncCallbackStart(sequenceNumber) ==
  /\ Deliverable(sequenceNumber)
  /\ Len(deliveries) < MaxDeliveries
  /\ deliveries' = Append(deliveries, sequenceNumber)
  /\ UNCHANGED <<dbVars, channels, nforeign, lastSyncedSequence>>
  /\ LET operation == Channel[sequenceNumber]
     IN  IF AlreadyProcessed(sequenceNumber)
           THEN UNCHANGED <<inflight, applied, rejections, replicaTable>>
         ELSE IF applyOperationThrows(operation)
           THEN /\ rejections' = rejections + 1
                /\ UNCHANGED <<inflight, applied, replicaTable>>
         ELSE /\ Len(inflight) < MaxInflight
              /\ replicaTable' = applyOperation(operation, replicaTable)
              /\ applied' = Append(applied, sequenceNumber)
              /\ inflight' = Append(inflight, sequenceNumber)
              /\ UNCHANGED rejections

\* The callback that has waited longest resumes after its await (the
\* promises of applyOperation settle in the order they were made) and
\* assigns the cursor.
SyncCallbackResume ==
  /\ inflight # <<>>
  /\ lastSyncedSequence' = Head(inflight)
  /\ inflight' = Tail(inflight)
  /\ UNCHANGED <<dbVars, channels, nforeign, applied, deliveries, rejections, replicaTable>>

\* The sync engine next to one caller whose calls fill the channel: a
\* valid insert, patches of its row, and a stranger's message.
SyncNext ==
  \/ Initialize(FALSE, "none") /\ UNCHANGED <<initVars, txnVars>>
  \/ \E txId \in generateTxId \cap {"T1"} :
       Insert("c1", "users", [name |-> "Alice", age |-> "30"], EmptyObj, txId, "ack", FALSE) /\ UNCHANGED <<initVars, txnVars>>
  \/ UpdateBegin("c1", "users", "T1", [age |-> "31"], EmptyObj) /\ UNCHANGED <<initVars, txnVars>>
  \/ UpdateFinish("c1", "ack", FALSE) /\ UNCHANGED <<initVars, txnVars>>
  \/ ForeignSubmit /\ UNCHANGED <<initVars, txnVars>>
  \/ \E sequenceNumber \in 1..(MaxCalls + MaxForeign + 1) :
       SyncCallbackStart(sequenceNumber) /\ UNCHANGED <<initVars, txnVars>>
  \/ SyncCallbackResume /\ UNCHANGED <<initVars, txnVars>>

\* One caller using the whole API, reads included, before and after
\* initialize, with every answer of the ledger and listeners that throw.
ApiNext ==
  \/ \E existing \in BOOLEAN, failAt \in {"none", "topic", "pg", "submit"} :
       Initialize(existing, failAt) /\ UNCHANGED <<initVars, txnVars>>
  \/ \E tableName \in TableNames, data \in ApiInsertInputs, txId \in generateTxId,
        ledger \in LedgerOutcomes, listenerThrows \in BOOLEAN :
       Insert("c1", tableName, data, EmptyObj, txId, ledger, listenerThrows) /\ UNCHANGED <<initVars, txnVars>>
  \/ \E txId \in TxIds : UpdateBegin("c1", "users", txId, [age |-> "31"], EmptyObj) /\ UNCHANGED <<initVars, txnVars>>
  \/ \E ledger \in LedgerOutcomes, listenerThrows \in BOOLEAN :
       UpdateFinish("c1", ledger, listenerThrows) /\ UNCHANGED <<initVars, txnVars>>
  \/ \E txId \in TxIds, hardDelete \in BOOLEAN :
       DeleteBegin("c1", "users", txId, EmptyObj, hardDelete) /\ UNCHANGED <<initVars, txnVars>>
  \/ \E ledger \in LedgerOutcomes, listenerThrows \in BOOLEAN :
       DeleteFinish("c1", ledger, listenerThrows) /\ UNCHANGED <<initVars, txnVars>>
  \/ \E tableName \in TableNames : Query("c1", tableName) /\ UNCHANGED <<initVars, txnVars>>
  \/ \E tableName \in TableNames, txId \in TxIds : GetAuditTrail("c1", tableName, txId) /\ UNCHANGED <<initVars, txnVars>>
  \/ \E tableName \in TableNames, txId \in TxIds : VerifyIntegrity("c1", tableName, txId) /\ UNCHANGED <<initVars, txnVars>>

\* ------------------------------------------------------------ TransactionManager
\* The operations callers queue: { method: 'insert', args: ['users', data] }.
QueuedOperations ==
  { [method |-> "insert", data |-> [name |-> "Alice", age |-> "30"]],
    [method |-> "insert", data |-> [name |-> "Bob"]] }

\* this.transactions.delete that deletes nothing.
MapDeleteNothing(map, transactionId) == map

\* this.transactions.delete(transactionId)
MapDelete(map, transactionId) == [map EXCEPT ![transactionId] = 0]

\* The for-of loop of commit ending after its first operation.
LoopDoneAfterFirst(txn, i) == TRUE

\* The for-of loop of commit has no operation after the i-th of the array
\* as it is now.
LoopDone(txn, i) == i >= Len(txn.operations)

\* begin(transactionId): a new txn object under that id.
begin(transactionId) ==
  /\ ntxn < MaxTxnCalls
  /\ Len(txnObjs) < MaxTransactions
  /\ ntxn' = ntxn + 1
  /\ txnObjs' = Append(txnObjs, [id |-> transactionId, operations |-> <<>>,
                                 state |-> "active"])
  /\ transactions' = [transactions EXCEPT ![transactionId] = Len(txnObjs) + 1]
  /\ txnResult' = TxnRes(ntxn + 1, "begin", transactionId, "ok")
  /\ UNCHANGED <<dbVars, channels, syncVars, nforeign, initVars, commits, invoked>>

\* addOperation(transactionId, method, args)
addOperation(transactionId, operation) ==
  /\ ntxn < MaxTxnCalls
  /\ ntxn' = ntxn + 1
  /\ UNCHANGED <<dbVars, channels, syncVars, nforeign, initVars, transactions,
                 commits, invoked>>
  /\ LET txn == transactions[transactionId]
     IN  IF txn = 0
           THEN /\ txnResult' = TxnRes(ntxn + 1, "addOperation", transactionId,
                                       "Transaction not found")
                /\ UNCHANGED txnObjs
           ELSE /\ Len(txnObjs[txn].operations) < MaxOperations
                /\ txnObjs' = [txnObjs EXCEPT ![txn].operations = Append(@, operation)]
                /\ txnResult' = TxnRes(ntxn + 1, "addOperation", transactionId, "ok")

\* The commit calls in progress other than c's, by their numbers.
OtherCommits(c) == { commits[d].n : d \in { e \in Clients \ {c} : commits[e].pc = "running" } }

\* commit(transactionId) up to its first await: the lookup, and with an
\* empty operations array the whole call.
commit(c, transactionId) ==
  /\ commits[c].pc = "idle"
  /\ ntxn < MaxTxnCalls
  /\ ntxn' = ntxn + 1
  /\ UNCHANGED <<dbVars, channels, syncVars, nforeign, initVars, invoked>>
  /\ LET txn == transactions[transactionId]
     IN  IF txn = 0
           THEN /\ txnResult' = TxnRes(ntxn + 1, "commit", transactionId,
                                       "Transaction not found")
                /\ UNCHANGED <<txnObjs, transactions, commits>>
         ELSE IF txnObjs[txn].operations = <<>>
           THEN /\ txnObjs' = [txnObjs EXCEPT ![txn].state = "committed"]
                /\ transactions' = MapDelete(transactions, transactionId)
                /\ txnResult' = TxnRes(ntxn + 1, "commit", transactionId, "ok")
                /\ UNCHANGED commits
         ELSE /\ commits' = [d \in Clients |->
                     IF d = c
                       THEN [pc |-> "running", txn |-> txn, next |-> 1, n |-> ntxn + 1,
                             id |-> transactionId, overlapped |-> OtherCommits(c)]
                     ELSE IF commits[d].pc = "running"
                       THEN [commits[d] EXCEPT !.overlapped = @ \cup {ntxn + 1}]
                     ELSE commits[d]]
              /\ UNCHANGED <<txnObjs, transactions, txnResult>>

\* commit from one await this.db[op.method](...op.args) to the next, or to
\* its end: the operation runs (db.insert, with the ledger's answer; the
\* entry of invoked tells which commit calls have overlapped this one), and
\* the loop goes on, or the call throws what the operation threw, or it
\* marks the txn committed and deletes its id.
commitResume(c, txId, ledger) ==
  /\ commits[c].pc = "running"
  /\ LET call == commits[c]
         txn == txnObjs[call.txn]
         operation == txn.operations[call.next]
     IN  /\ Insert(c, "users", operation.data, EmptyObj, txId, ledger, FALSE)
         /\ UNCHANGED <<initVars, ntxn>>
         /\ LET ok == result'.status = "ok"
            IN  /\ invoked' = Append(invoked,
                       [txn |-> call.txn, index |-> call.next, call |-> call.n,
                        ok |-> ok, overlapped |-> call.overlapped])
                /\ IF ~ok
                     THEN /\ commits' = [commits EXCEPT ![c] = Idle]
                          /\ txnResult' = TxnRes(call.n, "commit", call.id, result'.status)
                          /\ UNCHANGED <<txnObjs, transactions>>
                   ELSE IF LoopDone(txn, call.next)
                     THEN /\ commits' = [commits EXCEPT ![c] = Idle]
                          /\ txnObjs' = [txnObjs EXCEPT ![call.txn].state = "committed"]
                          /\ transactions' = MapDelete(transactions, call.id)
                          /\ txnResult' = TxnRes(call.n, "commit", call.id, "ok")
                   ELSE /\ commits' = [commits EXCEPT ![c].next = @ + 1]
                        /\ UNCHANGED <<txnObjs, transactions, txnResult>>

\* rollback(transactionId)
rollback(transactionId) ==
  /\ ntxn < MaxTxnCalls
  /\ ntxn' = ntxn + 1
  /\ UNCHANGED <<dbVars, channels, syncVars, nforeign, initVars, commits, invoked>>
  /\ LET txn == transactions[transactionId]
     IN  IF txn = 0
           THEN /\ txnResult' = TxnRes(ntxn + 1, "rollback", transactionId,
                                       "Transaction not found")
                /\ UNCHANGED <<txnObjs, transactions>>
           ELSE /\ txnObjs' = [txnObjs EXCEPT ![txn].state = "rolled_back"]
                /\ transactions' = MapDelete(transactions, transactionId)
                /\ txnResult' = TxnRes(ntxn + 1, "rollback", transactionId, "ok")

\* Callers of a TransactionManager over an initialized or uninitialized db.
TxnNext ==
  \/ Initialize(FALSE, "none") /\ UNCHANGED <<initVars, txnVars>>
  \/ \E transactionId \in TransactionIds : begin(transactionId)
  \/ \E transactionId \in TransactionIds, operation \in QueuedOperations :
       addOperation(transactionId, operation)
  \/ \E c \in Clients, transactionId \in TransactionIds : commit(c, transactionId)
  \/ \E c \in Clients, txId \in generateTxId, ledger \in {"ack", "permanent"} :
       commitResume(c, txId, ledger)
  \/ \E transactionId \in TransactionIds : rollback(transactionId)

\* initialize calls that may overlap, next to a caller who inserts.
InitNext ==
  \/ \E c \in Clients, existing \in BOOLEAN : InitializeStart(c, existing)
  \/ \E c \in Clients, ok \in BOOLEAN : InitializeTopic(c, ok)
  \/ \E c \in Clients, ok \in BOOLEAN : InitializeInfrastructure(c, ok)
  \/ \E c \in Clients, ok \in BOOLEAN : InitializePublish(c, ok)
  \/ \E txId \in generateTxId :
       Insert("c1", "users", [name |-> "Alice", age |-> "30"], EmptyObj, txId, "ack", FALSE) /\ UNCHANGED <<initVars, txnVars>>

Next == DbNext

Spec == Init /\ [][Next]_vars

SyncSpec == Init /\ [][SyncNext]_vars

ApiSpec == Init /\ [][ApiNext]_vars

InitSpec == Init /\ [][InitNext]_vars

TxnSpec == Init /\ [][TxnNext]_vars

\* ------------------------------------------------------------ claims
RunningCalls(cs) == Cardinality({ c \in Clients : cs[c].pc # "idle" })

\* A call ended in this step: result' is what it returned or threw.
Returned == ncalls' - RunningCalls(calls') = ncalls - RunningCalls(calls) + 1

\* A call began and ended in this step.
BeganAndEnded == ncalls' = ncalls + 1 /\ calls' = calls

NoVisibleChange == table' = table /\ auditLog' = auditLog /\ committed' = committed

\* C1: when the publication of a mutation's LedgerMessage fails, the call
\* ends with that error, and the rows, the audit log and the channel are
\* what they were before the step.
C1_PublishFailureAborts ==
  [][ (Returned /\ result'.hedera = "fail")
        => /\ result'.status = "LedgerSubmissionError"
           /\ NoVisibleChange
           /\ channels' = channels ]_vars

C1_Witness ==
  /\ result.op = "update"
  /\ result.hedera = "fail"
  /\ HasRow(result.txId)
  /\ table[result.txId]._version = 1

\* C2: the audit log holds exactly one row per committed mutation, in
\* commit order, with the mutation's txId, operation and hash; an insert
\* or update that validateData rejects writes no audit row and publishes
\* nothing.
AuditMatchesCommitted ==
  /\ Len(auditLog) = Len(committed)
  /\ \A i \in DOMAIN committed :
       /\ auditLog[i].tx_id = committed[i].txId
       /\ auditLog[i].operation = committed[i].op
       /\ auditLog[i].data_hash = committed[i].dataHash

C2_OneAuditPerCommit ==
  [][ /\ AuditMatchesCommitted'
      /\ (Returned /\ result'.status \in {"UnknownTable", "UnknownField"})
           => (NoVisibleChange /\ channels' = channels) ]_vars

C2_Witness ==
  /\ Len(committed) = 1
  /\ result.status = "UnknownField"
  /\ result.op = "update"

\* C3: right after an insert or an update has returned successfully,
\* verifyIntegrity of its row reports a match.
C3_VerifyAfterMutation ==
  (result.status = "ok" /\ result.op \in {"insert", "update"})
    => verifyIntegrity(result.table, result.txId).match

\* C4: an update of an existing, non-deleted row whose publication is
\* acknowledged commits: it returns the previous version plus one and a
\* new hash, the audit trail of the row has an INSERT and an UPDATE row,
\* and verifyIntegrity matches with the returned hash.
C4_UpdateAfterInsert ==
  (result.op = "update" /\ result.hedera = "ack")
    => /\ result.status = "ok"
       /\ result.version = 2
       /\ Len(getAuditTrail(result.table, result.txId)) = 2
       /\ verifyIntegrity(result.table, result.txId).match
       /\ verifyIntegrity(result.table, result.txId).storedHash = result.dataHash

\* C9: an update whose txId has no row, or a soft-deleted one, ends with
\* NotFound in the step that looks the row up, and changes no row, writes
\* no audit row and publishes nothing.
C9_UpdateNotFound ==
  [][ /\ \A c \in Clients :
           (calls[c].pc = "idle" /\ calls'[c].pc = "update")
             => SelectLive(calls'[c].txId)
      /\ (BeganAndEnded /\ isInitialized /\ result'.op = "update"
            /\ result'.table \in SchemaTables /\ ~SelectLive(result'.txId))
           => /\ result'.status = "NotFound"
              /\ NoVisibleChange
              /\ channels' = channels ]_vars

C9_Witness ==
  /\ result.op = "update"
  /\ result.status = "NotFound"
  /\ ~HasRow(result.txId)
  /\ DOMAIN table # {}

\* C10: after a soft delete of an existing row whose publication was
\* acknowledged the row is absent from query() and present, flagged, in
\* query({includeDeleted: true}); after such a hard delete the row is in
\* neither and getAuditTrail still returns its rows.
C10_DeleteVisibility ==
  /\ (result.op = "delete_soft" /\ result.hedera = "ack")
       => /\ result.txId \notin query(FALSE)
          /\ result.txId \in query(TRUE)
          /\ table[result.txId]._is_deleted
  /\ (result.op = "delete_hard" /\ result.hedera = "ack")
       => /\ result.txId \notin query(TRUE)
          /\ Len(getAuditTrail(result.table, result.txId)) > 0

\* C5: the cursor of SyncManager never decreases.
C5_CursorMonotonic ==
  [][ lastSyncedSequence' >= lastSyncedSequence ]_vars

\* C6: handing the callback a sequence number at or below the cursor
\* applies nothing and leaves cursor, store and pending callbacks alone;
\* well-formed messages 1, 2, 5 delivered from cursor 0 are applied once
\* each, in that order, and leave the cursor at 5.
DeliveredBelowCursor ==
  \E sequenceNumber \in 1..Len(Channel) :
    /\ deliveries' = Append(deliveries, sequenceNumber)
    /\ sequenceNumber <= lastSyncedSequence

Replayed125 ==
  (/\ deliveries = <<1, 2, 5>>
   /\ inflight = <<>>
   /\ \A k \in {1, 2, 5} : ~applyOperationThrows(Channel[k]))
    => (applied = <<1, 2, 5>> /\ lastSyncedSequence = 5)

C6_RedeliveryIsNoOp ==
  [][ /\ DeliveredBelowCursor
        => /\ lastSyncedSequence' = lastSyncedSequence
           /\ applied' = applied
           /\ replicaTable' = replicaTable
           /\ inflight' = inflight
           /\ rejections' = rejections
      /\ Replayed125' ]_vars

C6_Witness ==
  /\ deliveries = <<1, 2, 5, 2>>
  /\ applied = <<1, 2, 5>>
  /\ inflight = <<>>
  /\ lastSyncedSequence = 5

\* The records of a store: existence, delete flag, hash and version.
Records(store) ==
  [t \in DOMAIN store |->
     [_is_deleted |-> store[t]._is_deleted, _data_hash |-> store[t]._data_hash,
      _version |-> store[t]._version]]

\* Every message of the channel has been delivered once, in order, from
\* cursor 0, and every callback has finished.
FullReplayDone ==
  /\ Len(Channel) > 0
  /\ deliveries = [i \in 1..Len(Channel) |-> i]
  /\ inflight = <<>>
  /\ \A c \in Clients : calls[c].pc = "idle"

\* C7: after a full replay into the empty store, that store holds the
\* records of the store whose mutations produced the channel.
C7_ReplayRebuildsStore ==
  FullReplayDone => Records(replicaTable) = Records(table)

\* The callback was handed a message above the cursor and applyOperation
\* threw on it.
ApplyFailed ==
  \E sequenceNumber \in 1..Len(Channel) :
    /\ deliveries' = Append(deliveries, sequenceNumber)
    /\ ~AlreadyProcessed(sequenceNumber)
    /\ applyOperationThrows(Channel[sequenceNumber])

\* C8: when applyOperation fails the cursor is not advanced and the
\* failure does not leave the callback (no callback promise is rejected).
C8_ApplyFailureCaught ==
  [][ ApplyFailed
        => /\ lastSyncedSequence' = lastSyncedSequence
           /\ rejections' = rejections ]_vars

DeleteOps == {"delete_soft", "delete_hard"}

\* C11: a delete of a txId that has no row, or whose row is already
\* soft-deleted, ends NotFound and leaves rows, audit log and channel
\* alone, and no delete goes on with such a row; a delete that got its
\* row and whose publication was acknowledged succeeds and adds exactly
\* one audit row.
C11_DeleteOutcomes ==
  [][ /\ ( /\ BeganAndEnded
           /\ isInitialized
           /\ result'.op \in DeleteOps
           /\ result'.table \in SchemaTables
           /\ ~SelectLive(result'.txId) )
        => /\ result'.status = "NotFound"
           /\ NoVisibleChange
           /\ channels' = channels
      /\ \A c \in Clients :
           (calls[c].pc = "idle" /\ calls'[c].pc = "delete")
             => SelectLive(calls'[c].txId)
      /\ (Returned /\ result'.op \in DeleteOps /\ result'.hedera = "ack")
        => /\ result'.status = "ok"
           /\ Len(auditLog') = Len(auditLog) + 1 ]_vars

\* C12: when two updates of the same row that patch different fields,
\* each having read the row before the other ended, have both had their
\* publication acknowledged and have both returned, both are committed:
\* the row's stored hash is the hash of its fields and its _version is
\* the version they read plus 2.
C12_ConcurrentUpdates ==
  (result.op = "update" /\ result.raced)
    => /\ result.status = "ok"
       /\ HasRow(result.txId)
       /\ table[result.txId]._data_hash = calculateHash(cleanData(table[result.txId]))
       /\ table[result.txId]._version = result.readVersion + 2

SensitiveKeys == {"password", "token", "secret"}

\* C13: no row of the audit log and no message on any channel holds
\* metadata with a password, token or secret key.
C13_NoSensitiveMetadata ==
  /\ \A i \in DOMAIN auditLog :
       \A k \in SensitiveKeys : ~Has(auditLog[i].metadata, k)
  /\ \A t \in DOMAIN channels : \A i \in DOMAIN channels[t] :
       \A k \in SensitiveKeys : ~Has(channels[t][i].metadata, k)

\* C14: a listener that throws does not change what a committed mutation
\* returns: every call that commits returns success, and the errors
\* counter is what it was before.
C14_ListenerFailureIgnored ==
  [][ (Returned /\ committed' # committed)
        => /\ result'.status = "ok"
           /\ metrics'.errors = metrics.errors ]_vars

\* C15: a publication that fails transiently is tried again, so it is not
\* what ends the call; a publication that fails for good ends the call
\* with that failure and nothing is committed.
C15_TransientRetried ==
  [][ /\ (Returned /\ result'.ledger = "transient")
           => result'.status # "LedgerSubmissionError"
      /\ (Returned /\ result'.ledger = "permanent")
           => (result'.status = "LedgerSubmissionError" /\ NoVisibleChange) ]_vars

\* C16: over any sequence of initialize calls the instance creates at
\* most one channel (channels holds the one that existed before and those
\* the instance created), and topicId, once set, never changes.
C16_OneChannel ==
  [][ /\ (topicId # 0 => topicId' = topicId)
      /\ Len(channels') <= 2 ]_vars

\* The committed mutations of one row, in commit order.
CommittedOf(txId) == SelectSeq(committed, LAMBDA m : m.txId = txId)

Reverse(s) == [i \in 1..Len(s) |-> s[Len(s) + 1 - i]]

\* getAuditTrail returns the audit rows of the row's committed mutations
\* in commit order, and with descending the same rows in reverse.
TrailInCommitOrder(txId) ==
  LET trail == AuditTrail("users", txId, FALSE)
      mine == CommittedOf(txId)
  IN  /\ Len(trail) = Len(mine)
      /\ \A i \in DOMAIN trail :
           /\ trail[i].tx_id = txId
           /\ trail[i].operation = mine[i].op
           /\ trail[i].data_hash = mine[i].dataHash
      /\ AuditTrail("users", txId, TRUE) = Reverse(trail)

\* C17: an audit row, once committed, is never changed or removed by any
\* step, and getAuditTrail(tableName, txId) returns the row's audit rows
\* ordered by commit time, ascending by default and descending on request.
C17_AuditAppendOnly ==
  [][ /\ \A i \in DOMAIN auditLog :
           i \in DOMAIN auditLog' /\ auditLog'[i] = auditLog[i]
      /\ \A txId \in TxIds : TrailInCommitOrder(txId)' ]_vars

\* Two rows are in the audit log, a delete of one of them has just been
\* rolled back, and the trail of that row is read in descending order.
C17_Witness ==
  /\ Len(auditLog) = 2
  /\ result.op \in DeleteOps
  /\ result.status = "UniqueViolation"
  /\ Len(AuditTrail("users", result.txId, TRUE)) = 1

\* C18: a soft delete of a row whose publication was acknowledged is
\* committed: it sets the delete flag and leaves the domain fields, the
\* stored hash and the version alone, and its audit row and its message
\* are DELETE_SOFT with the row's existing hash.
C18_SoftDeleteFrame ==
  [][ ( /\ Returned
        /\ result'.op = "delete_soft"
        /\ result'.hedera = "ack"
        /\ HasRow(result'.txId) )
        => LET t == result'.txId
           IN  /\ table'[t] = [table[t] EXCEPT !._is_deleted = TRUE]
               /\ Len(auditLog') = Len(auditLog) + 1
               /\ auditLog'[Len(auditLog')].operation = "DELETE_SOFT"
               /\ auditLog'[Len(auditLog')].data_hash = table[t]._data_hash
               /\ Len(Channel') = Len(Channel) + 1
               /\ Channel'[Len(Channel')].type = "DELETE_SOFT"
               /\ Channel'[Len(Channel')].dataHash = table[t]._data_hash ]_vars

\* C19: a call of insert, update, delete, query, getAuditTrail or
\* verifyIntegrity that is made before initialize has succeeded ends with
\* NotInitialized and leaves the rows, the audit log and the channel alone.
C19_NotInitializedRejected ==
  [][ (Returned /\ ~isInitialized)
        => /\ result'.status = "NotInitialized"
           /\ NoVisibleChange
           /\ channels' = channels ]_vars

\* C20 as stated: on an initialized instance verifyIntegrity never raises
\* and what it returns is one of three things: 'Record not found' when no
\* row has the txId, and otherwise a verified result whose match tells
\* whether the stored and the recomputed hash are equal, with the number
\* of the row's audit rows and the last of them.
C20_ThreeOutcomes ==
  (result.op = "verifyIntegrity" /\ isInitialized)
    => LET v == verifyIntegrity(result.table, result.txId)
           mine == CommittedOf(result.txId)
       IN  /\ result.status = "ok"
           /\ IF ~HasRow(result.txId)
                THEN ~v.valid /\ v.error = "Record not found"
                ELSE /\ v.verified
                     /\ v.match <=> (v.storedHash = v.calculatedHash)
                     /\ v.auditRecords = Len(mine)
                     /\ v.lastAudit.operation = mine[Len(mine)].op

\* C20: verifyIntegrity never raises and what it returns is one of four
\* things: the caught error, unverified, when its query fails (the table
\* does not exist); 'Record not found' when the table exists and no row
\* has the txId; and otherwise a verified result with the row's stored
\* hash, the hash of its columns, match true exactly when the two are
\* equal, the number of the row's audit rows, and as lastAudit the audit
\* row of the row's last committed mutation.
C20_FourOutcomes ==
  result.op = "verifyIntegrity"
    => LET v == verifyIntegrity(result.table, result.txId)
           mine == CommittedOf(result.txId)
       IN  /\ result.status = "ok"
           /\ IF ~RelationExists(result.table)
                THEN ~v.valid /\ ~v.verified /\ v.error = "UndefinedTable"
              ELSE IF ~HasRow(result.txId)
                THEN ~v.valid /\ v.error = "Record not found"
              ELSE /\ v.verified /\ v.error = NULL
                   /\ v.storedHash = table[result.txId]._data_hash
                   /\ v.match <=> (v.storedHash = v.calculatedHash)
                   /\ v.valid <=> v.match
                   /\ v.auditRecords = Len(mine)
                   /\ Len(mine) > 0
                   /\ v.lastAudit.tx_id = result.txId
                   /\ v.lastAudit.operation = mine[Len(mine)].op
                   /\ v.lastAudit.data_hash = mine[Len(mine)].dataHash

\* verifyIntegrity has been called on a row whose stored hash is not the
\* hash of its columns, and on a table that does not exist.
C20_Witness ==
  /\ result.op = "verifyIntegrity"
  /\ HasRow(result.txId)
  /\ RelationExists(result.table)
  /\ ~verifyIntegrity(result.table, result.txId).match
  /\ verifyIntegrity("ghost", result.txId).error = "UndefinedTable"

MutationTypes == {"INSERT", "UPDATE", "DELETE_SOFT", "DELETE_HARD"}

\* The hash a mutation's message carries for the state it produced.
MessageHash(m) == IF m.type = "UPDATE" THEN m.newHash ELSE m.dataHash

\* C21: every INSERT, UPDATE, DELETE_SOFT or DELETE_HARD message that a
\* channel holds belongs to exactly one committed mutation and to an
\* audit row, of the same txId, operation and hash.
C21_AcknowledgedIsCommitted ==
  \A t \in DOMAIN channels : \A i \in DOMAIN channels[t] :
    LET m == channels[t][i]
    IN  m.type \in MutationTypes
          => /\ Cardinality({ j \in DOMAIN committed :
                                /\ committed[j].txId = m.txId
                                /\ committed[j].op = m.type
                                /\ committed[j].dataHash = MessageHash(m) }) = 1
             /\ \E j \in DOMAIN auditLog :
                  /\ auditLog[j].tx_id = m.txId
                  /\ auditLog[j].operation = m.type
                  /\ auditLog[j].data_hash = MessageHash(m)

\* C22: no sequence number is applied to the store more than once,
\* whatever is delivered again and however the callbacks interleave.
C22_AppliedAtMostOnce ==
  \A i, j \in DOMAIN applied : applied[i] = applied[j] => i = j

\* C23: a message that has been handed to the callback has been applied
\* (unless applyOperation throws on it), also when a message with a
\* higher sequence number was handed over before it.
C23_DeliveredIsApplied ==
  \A i \in DOMAIN deliveries :
    \/ applyOperationThrows(Channel[deliveries[i]])
    \/ \E j \in DOMAIN applied : applied[j] = deliveries[i]

\* The positions of the SCHEMA_INIT messages of a channel.
SchemaInits(t) == { i \in DOMAIN channels[t] : channels[t][i].type = "SCHEMA_INIT" }

\* C28: a channel the instance created holds at most one SCHEMA_INIT
\* message, exactly one once the instance is initialized on it, and that
\* message precedes every mutation message of the channel; the channel
\* that existed before holds no SCHEMA_INIT message.
C28_SchemaInitFirst ==
  /\ SchemaInits(ExistingTopic) = {}
  /\ \A t \in DOMAIN channels \ {ExistingTopic} :
       /\ Cardinality(SchemaInits(t)) <= 1
       /\ \A i \in DOMAIN channels[t] :
            channels[t][i].type \in MutationTypes
              => \E j \in SchemaInits(t) : j < i
       /\ ( /\ isInitialized
            /\ topicId = t
            /\ \A c \in Clients : inits[c].pc = "idle" )
            => Cardinality(SchemaInits(t)) = 1

\* The messages the channels have acknowledged (here all of them are the
\* instance's own).
Acknowledged ==
  UNION { { <<t, i>> : i \in DOMAIN channels[t] } : t \in DOMAIN channels }

CommittedCount(ops) == Cardinality({ j \in DOMAIN committed : committed[j].op \in ops })

\* C29: hederaSubmissions is the number of messages the channels have
\* acknowledged for the instance, and insertCount, updateCount and
\* deleteCount are the numbers of committed mutations of their kind.
C29_CountersMatch ==
  /\ metrics.hederaSubmissions = Cardinality(Acknowledged)
  /\ metrics.insertCount = CommittedCount({"INSERT"})
  /\ metrics.updateCount = CommittedCount({"UPDATE"})
  /\ metrics.deleteCount = CommittedCount({"DELETE_SOFT", "DELETE_HARD"})

\* The operations one commit call has run, in the order it ran them.
InvocationsOf(n) == SelectSeq(invoked, LAMBDA v : v.call = n)

\* Every commit call has run the operations of its transaction from the
\* first on, one after the other, each at most once.
RunInQueueOrder ==
  \A n \in 1..ntxn :
    \A k \in DOMAIN InvocationsOf(n) : InvocationsOf(n)[k].index = k

\* A transaction is marked committed only when one commit call has run
\* every operation it holds, each with success.
CommittedAfterAll ==
  \A o \in DOMAIN txnObjs :
    txnObjs[o].state = "committed"
      => \E n \in 1..ntxn :
           /\ Len(InvocationsOf(n)) = Len(txnObjs[o].operations)
           /\ \A k \in DOMAIN InvocationsOf(n) :
                InvocationsOf(n)[k].txn = o /\ InvocationsOf(n)[k].ok

\* The commit call that ended last has run every operation of its
\* transaction, which is marked committed and whose id is removed.
LastCommitComplete ==
  /\ transactions[txnResult.id] = 0
  /\ \E o \in DOMAIN txnObjs :
       /\ txnObjs[o].id = txnResult.id
       /\ txnObjs[o].state = "committed"
       /\ Len(InvocationsOf(txnResult.n)) = Len(txnObjs[o].operations)
       /\ \A k \in DOMAIN InvocationsOf(txnResult.n) :
            InvocationsOf(txnResult.n)[k].txn = o

\* A commit call ended with success in this step.
CommitSucceeded ==
  /\ txnResult' # txnResult
  /\ txnResult'.op = "commit"
  /\ txnResult'.status = "ok"

\* C24: an operation runs only in a commit call that is in progress, as
\* the next one of that call's transaction; a commit call runs the queued
\* operations once each in the order they were added; and the transaction
\* is marked committed and its id removed in the step that ends the call,
\* when all of them have completed.
C24_CommitRunsQueueInOrder ==
  [][ /\ invoked' # invoked
        => \E c \in Clients :
             /\ commits[c].pc = "running"
             /\ Len(invoked') = Len(invoked) + 1
             /\ invoked'[Len(invoked')].txn = commits[c].txn
             /\ invoked'[Len(invoked')].index = commits[c].next
      /\ RunInQueueOrder'
      /\ CommittedAfterAll'
      /\ CommitSucceeded => LastCommitComplete'
      /\ \A o \in DOMAIN txnObjs :
           (txnObjs[o].state # "committed" /\ txnObjs'[o].state = "committed")
             => CommitSucceeded ]_vars

\* A commit call has run two queued operations and ended with success.
C24_Witness ==
  /\ txnResult.op = "commit"
  /\ txnResult.status = "ok"
  /\ Len(InvocationsOf(txnResult.n)) = 2
  /\ transactions[txnResult.id] = 0

\* Two entries of invoked whose commit calls overlapped.
Overlapped(v, w) == v.call \in w.overlapped \/ w.call \in v.overlapped

\* No operation is applied by two commit calls of which the second began
\* after the first had ended (a retry).
RetryAppliesOnce ==
  \A i, j \in DOMAIN invoked :
    ( /\ i < j
      /\ invoked[i].txn = invoked[j].txn
      /\ invoked[i].index = invoked[j].index
      /\ invoked[i].call # invoked[j].call
      /\ ~Overlapped(invoked[i], invoked[j]) )
      => ~(invoked[i].ok /\ invoked[j].ok)

\* The last call was a commit that failed on one of the queued operations.
CommitFailed ==
  /\ txnResult.op = "commit"
  /\ txnResult.status \notin {"ok", "Transaction not found"}

\* C25: when a commit call has failed on an operation, none of the
\* operations it ran has taken effect; and no operation is applied a
\* second time by a later retry of the commit.
C25_CommitAtomic ==
  /\ CommitFailed => \A k \in DOMAIN InvocationsOf(txnResult.n) :
                        ~InvocationsOf(txnResult.n)[k].ok
  /\ RetryAppliesOnce

\* C27: no queued operation is applied twice by two commit calls of the
\* same transaction that overlapped.
C27_OverlappingCommitsRunOnce ==
  \A i, j \in DOMAIN invoked :
    ( /\ i < j
      /\ invoked[i].txn = invoked[j].txn
      /\ invoked[i].call # invoked[j].call
      /\ invoked[i].index = invoked[j].index
      /\ Overlapped(invoked[i], invoked[j]) )
      => ~(invoked[i].ok /\ invoked[j].ok)

\* A call of the TransactionManager that ended in this step.
TxnCallEnded == txnResult' # txnResult

\* A commit, rollback or addOperation call made in this step with an id the
\* map does not hold.
CallOnAbsentId(transactionId) ==
  /\ ntxn' = ntxn + 1
  /\ transactions[transactionId] = 0
  /\ \/ /\ TxnCallEnded
        /\ txnResult'.id = transactionId
        /\ txnResult'.op \in {"commit", "rollback", "addOperation"}
     \/ \E c \in Clients : /\ commits[c].pc = "idle"
                           /\ commits'[c].pc = "running"
                           /\ commits'[c].id = transactionId

\* C26: a commit or a rollback that completes removes its transaction id;
\* while the id is absent, commit, rollback and addOperation with it fail
\* with 'Transaction not found' and change nothing, and only begin brings
\* the id back; a rollback invokes no queued operation and leaves the
\* database and the channels as they were.
C26_CompletedIdNotFound ==
  [][ /\ ( /\ TxnCallEnded
           /\ txnResult'.op \in {"commit", "rollback"}
           /\ txnResult'.status = "ok" )
           => transactions'[txnResult'.id] = 0
      /\ \A transactionId \in TransactionIds :
           /\ CallOnAbsentId(transactionId)
                => /\ TxnCallEnded
                   /\ txnResult'.status = "Transaction not found"
                   /\ UNCHANGED <<dbVars, channels, transactions, txnObjs,
                                  commits, invoked>>
           /\ (transactions[transactionId] = 0 /\ transactions'[transactionId] # 0)
                => (TxnCallEnded /\ txnResult'.op = "begin")
      /\ (TxnCallEnded /\ txnResult'.op = "rollback")
           => UNCHANGED <<dbVars, channels, invoked, commits>>
    ]_vars

C26_Witness ==
  /\ txnResult.op = "commit"
  /\ txnResult.status = "Transaction not found"
  /\ invoked = <<>>
  /\ \E o \in DOMAIN txnObjs : /\ txnObjs[o].id = txnResult.id
                               /\ txnObjs[o].state = "rolled_back"
                               /\ Len(txnObjs[o].operations) >= 1

====
